---- MODULE Spec2Model ----
(***************************************************************************)
(* A model of the web UI of the resume analysis system (src/script.js):    *)
(* the upload and polling handlers, the candidate list, the tab and        *)
(* keyboard handlers, the query and ATS forms.  Every async handler is     *)
(* split at its awaits: one action up to the request, one action for the   *)
(* continuation that runs when the response (or the failure) arrives.      *)
(* The FastAPI backend is not part of the sources; the little of it that   *)
(* the handlers observe is modelled from the specification (Srv...).       *)
(***************************************************************************)
EXTENDS Naturals, Integers, Sequences, FiniteSets, TLC

VARIABLES
    \* ---- upload area (uploadFiles, pollProcessingStatus)
    budget,          \* files the user may still hand to uploadFiles
    call,            \* the running uploadFiles invocation, or NoCall
    items,           \* the file items shown or still held by a poller
    uploadedFiles,   \* ids of the items shown in #uploadedFiles
    uploadProgress,  \* #uploadProgress: hidden, or the progress text
    refreshTimers,   \* pending setTimeout(loadCandidates, 2000), seconds left
    sent,            \* files sent so far to POST /upload-resume
    lastToast,       \* the most recent toast
    \* ---- backend as the handlers observe it
    srvKnown,        \* checksums of the documents ingested or being ingested
    srvQueue,        \* accepted documents waiting for background processing
    srvDetails,      \* details of GET /processing-status
    srvCandidates,   \* candidates of GET /candidates
    \* ---- candidates tab
    candidates,      \* let candidates
    candFetches,     \* loadCandidates requests in flight, by what awaits them
    candidatesGrid,  \* #candidatesGrid
    candidateSearch, \* value of #candidateSearch
    lastFilter,      \* the last input event on #candidateSearch and how it ended
    \* ---- tabs, health, status tab
    currentTab,      \* let currentTab
    systemHealth,    \* let systemHealth
    healthIndicator, \* #statusText
    statusCards,     \* #dbStatus, #ragStatus, #apiStatus
    healthFetches,   \* GET /health requests in flight, by what awaits them
    statusFetches,   \* loadProcessingStatus requests in flight
    processingView,  \* #processingSummary and #processingDetails
    lastKeydown,     \* the last keydown event on the document
    lastTick,        \* the last tick of the 30 s interval timer
    lastHealth,      \* how the last completed health check ended
    \* ---- query tab
    queryInput,      \* value of #queryInput
    queryResults,    \* #queryResults
    querySubmit,     \* #querySubmit: disabled or not
    queryFetches,    \* POST /query requests in flight
    lastKeypress,    \* the last keypress event on #queryInput
    \* ---- ATS tab
    atsInput,        \* values of #jobDescription and #singleResumeText
    atsResults,      \* #atsResults
    submitSingleATS, \* #submitSingleATS: disabled or not
    atsFetches       \* POST /ats-single requests in flight

uploadVars == <<budget, call, items, uploadedFiles, uploadProgress,
                refreshTimers, sent, lastToast>>
srvVars == <<srvKnown, srvQueue, srvDetails, srvCandidates>>
candVars == <<candidates, candFetches, candidatesGrid>>
filterVars == <<candidateSearch, lastFilter>>
tabVars == <<currentTab, systemHealth, healthIndicator, statusCards, healthFetches,
             statusFetches, processingView, lastKeydown, lastTick, lastHealth>>
queryVars == <<queryInput, queryResults, querySubmit, queryFetches, lastKeypress>>
atsVars == <<atsInput, atsResults, submitSingleATS, atsFetches>>
vars == <<uploadVars, srvVars, candVars, filterVars, tabVars, queryVars, atsVars>>

----------------------------------------------------------------------------
(* Bounds and program constants *)

\* files the user hands to uploadFiles in one session
MaxUploads == 2
\* the same, where the pollers are followed to their end under fairness
MaxPolled == 1
\* requests of the tabs in flight when the user acts or the interval timer ticks
MaxInFlight == 2
\* length of the candidate list and of the search term of the candidate search
MaxList == 2
MaxTerm == 2
\* length of the texts typed into the query and ATS fields
MaxText == 2

\* const maxAttempts = 30
maxAttempts == 30
\* setTimeout(poll, 5000), setTimeout(poll, 10000), setTimeout(loadCandidates, 2000):
\* the delays in seconds
PollStartDelay == 5
PollInterval == 10
RefreshDelay == 2

PDF == "application/pdf"

\* The files the user can choose.  FileA and FileB hold the same bytes under
\* two names; Notes is no PDF.
FileA == [name |-> "a.pdf", type |-> PDF, bytes |-> "x"]
FileB == [name |-> "b.pdf", type |-> PDF, bytes |-> "x"]
Notes == [name |-> "notes.txt", type |-> "text/plain", bytes |-> "y"]
Files == {FileA, FileB, Notes}

NoCall == [files |-> <<>>, i |-> 0]
NoToast == [type |-> "none", text |-> ""]
Hidden == [display |-> "none", file |-> "", i |-> 0, n |-> 0]

RECURSIVE SeqsUpTo(_, _)
SeqsUpTo(S, n) ==
    IF n = 0 THEN {<<>>}
    ELSE LET shorter == SeqsUpTo(S, n - 1)
         IN  shorter \cup {Append(s, x) : s \in {t \in shorter : Len(t) = n - 1}, x \in S}

Min(S) == CHOOSE x \in S : \A y \in S : x <= y

----------------------------------------------------------------------------
(* Pure helpers of script.js *)

getStatusText(status) ==
    CASE status = "processing" -> "Processing..."
      [] status = "success" -> "Processed"
      [] status = "error" -> "Failed"
      [] OTHER -> "Unknown"

\* a || b on strings: the empty string stands for null and undefined, and is
\* falsy itself
Or(a, b) == IF a = "" THEN b ELSE a

createFileItem(filename, status) ==
    [filename |-> filename, status |-> status, message |-> getStatusText(status),
     attempts |-> 0, timer |-> -1, polling |-> FALSE,
     \* history, not read by the handlers
     bytes |-> "", duplicate |-> FALSE, accepted |-> FALSE, requests |-> 0,
     reported |-> "none", refreshedAfter |-> FALSE]

updateFileStatus(item, status, message) ==
    [item EXCEPT !.status = status, !.message = Or(message, getStatusText(status))]

\* Array.from(e.dataTransfer.files).filter(file => file.type === 'application/pdf')
RECURSIVE FilterPdf(_)
FilterPdf(files) ==
    IF files = <<>> THEN <<>>
    ELSE IF Head(files).type = PDF
         THEN <<Head(files)>> \o FilterPdf(Tail(files))
         ELSE FilterPdf(Tail(files))

----------------------------------------------------------------------------
(* Texts are sequences of characters, so that toLowerCase and includes are  *)
(* computed.  Null is the value of an absent title.                         *)

Null == <<"null">>

\* What the extraction of a document yields, by the bytes of the document.
CandidateOf(bytes) ==
    IF bytes = "x"
    THEN [name |-> <<"A", "b">>, title |-> Null, skills |-> <<<<"G", "o">>>>,
          institutions |-> <<<<"M">>>>]
    ELSE [name |-> <<"B">>, title |-> <<"a">>, skills |-> <<>>,
          institutions |-> <<>>]

----------------------------------------------------------------------------
(* The backend, from the specification: ingestion is keyed by the checksum  *)
(* of the bytes, a known checksum is a DuplicateDocument, "not an error to  *)
(* the caller, a no-op signal"; processing runs in the background and ends  *)
(* processed or failed, and a failed ingestion leaves nothing behind.       *)

SrvIsDuplicate(file) == file.bytes \in srvKnown

SrvAccept(file) ==
    /\ srvKnown' = srvKnown \cup {file.bytes}
    /\ srvQueue' = srvQueue \cup {[filename |-> file.name, bytes |-> file.bytes]}
    /\ UNCHANGED <<srvDetails, srvCandidates>>

ServerProcess(doc, outcome, error) ==
    /\ doc \in srvQueue
    /\ srvQueue' = srvQueue \ {doc}
    /\ IF outcome = "processed"
       THEN /\ srvDetails' = Append(srvDetails,
                    [filename |-> doc.filename, status |-> "processed", error |-> ""])
            /\ srvCandidates' = Append(srvCandidates, CandidateOf(doc.bytes))
            /\ UNCHANGED srvKnown
       ELSE /\ srvDetails' = Append(srvDetails,
                    [filename |-> doc.filename, status |-> "failed", error |-> error])
            /\ srvKnown' = srvKnown \ {doc.bytes}
            /\ UNCHANGED srvCandidates
    /\ UNCHANGED <<uploadVars, candVars, filterVars, tabVars, queryVars, atsVars>>

----------------------------------------------------------------------------
(* File upload: handleDrop, handleFileSelect, uploadFiles *)

\* showToast: the type and the text of the toast, without the file name in it
Toast(type, text, file) == [type |-> type, text |-> text]

Progress(files, i) ==
    [display |-> "block", file |-> files[i].name, i |-> i, n |-> Len(files)]

Polled(item) == item.timer >= 0 \/ item.polling

\* uploadFiles up to its first await: the progress bar is shown, the list of
\* file items emptied (an item lives on only in the closure of its poller),
\* and the first file posted.  One invocation runs at a time.
uploadFiles(files) ==
    /\ call = NoCall
    /\ files # <<>>
    /\ Len(files) <= budget
    /\ budget' = budget - Len(files)
    /\ uploadedFiles' = <<>>
    /\ items' = SelectSeq(items, Polled)
    /\ uploadProgress' = Progress(files, 1)
    /\ call' = [files |-> files, i |-> 1]
    /\ sent' = sent \cup {files[1]}
    /\ UNCHANGED refreshTimers

handleDrop(dropped) ==
    LET files == FilterPdf(dropped)
    IN  /\ dropped # <<>>
        /\ Len(dropped) <= budget
        /\ IF files = <<>>
           THEN /\ lastToast' = Toast("warning", "Please select PDF files only", "")
                /\ UNCHANGED <<budget, call, items, uploadedFiles, uploadProgress,
                               refreshTimers, sent>>
           ELSE /\ uploadFiles(files)
                /\ UNCHANGED lastToast
        /\ UNCHANGED <<srvVars, candVars, filterVars, tabVars, queryVars, atsVars>>

handleFileSelect(selected) ==
    /\ uploadFiles(selected)
    /\ UNCHANGED lastToast
    /\ UNCHANGED <<srvVars, candVars, filterVars, tabVars, queryVars, atsVars>>

\* The rest of one round of the loop of uploadFiles, from the response to the
\* POST of file i to the POST of file i + 1 or, after the last file, to the
\* setTimeout of the refresh.  The reply to a duplicate is the no-op signal (ok,
\* nothing queued) or a rejection, as the backend chooses.
UploadResponse(outcome, accept, detail) ==
    LET file == call.files[call.i]
        dup == SrvIsDuplicate(file)
        ok == accept
        id == Len(items) + 1
        fileItem == [createFileItem(file.name, "processing") EXCEPT !.bytes = file.bytes]
    IN  /\ call # NoCall
        /\ CASE outcome = "throw" ->
                    /\ items' = Append(items,
                           [createFileItem(file.name, "error") EXCEPT !.bytes = file.bytes])
                    /\ lastToast' = Toast("error", "Error uploading", file.name)
                    /\ UNCHANGED srvVars
             [] outcome = "reply" /\ ok ->
                    /\ items' = Append(items,
                           [fileItem EXCEPT !.timer = PollStartDelay, !.duplicate = dup,
                                            !.accepted = TRUE])
                    /\ lastToast' = Toast("success", "uploaded successfully", file.name)
                    /\ IF dup THEN UNCHANGED srvVars ELSE SrvAccept(file)
             [] OTHER ->
                    /\ items' = Append(items,
                           updateFileStatus(fileItem, "error", Or(detail, "Upload failed")))
                    /\ lastToast' = Toast("error", "Failed to upload", file.name)
                    /\ UNCHANGED srvVars
        /\ uploadedFiles' = Append(uploadedFiles, id)
        /\ IF call.i < Len(call.files)
           THEN /\ call' = [call EXCEPT !.i = call.i + 1]
                /\ uploadProgress' = Progress(call.files, call.i + 1)
                /\ sent' = sent \cup {call.files[call.i + 1]}
                /\ UNCHANGED refreshTimers
           ELSE /\ call' = NoCall
                /\ uploadProgress' = Hidden
                /\ refreshTimers' = Append(refreshTimers, RefreshDelay)
                /\ UNCHANGED sent
        /\ UNCHANGED budget
        /\ UNCHANGED <<candVars, filterVars, tabVars, queryVars, atsVars>>

----------------------------------------------------------------------------
(* Candidates: loadCandidates, renderCandidates *)

renderCandidates(candidateList) ==
    IF candidateList = <<>>
    THEN [mode |-> "empty", cards |-> <<>>]
    ELSE [mode |-> "cards", cards |-> candidateList]

\* loadCandidates up to its await.  awaitedBy is "init" for the call that
\* initializeApp awaits, "plain" for a call nothing waits for.
loadCandidates(awaitedBy) ==
    /\ candidatesGrid' = [mode |-> "loading", cards |-> <<>>]
    /\ candFetches' = [candFetches EXCEPT ![awaitedBy] = @ + 1]
    /\ UNCHANGED candidates

\* loadProcessingStatus up to its await
loadProcessingStatus ==
    /\ statusFetches' = statusFetches + 1
    /\ UNCHANGED processingView

\* loadCandidates from the response on; initializeApp goes on with
\* loadProcessingStatus
LoadCandidatesResponse(awaitedBy, outcome) ==
    /\ candFetches[awaitedBy] > 0
    /\ candFetches' = [candFetches EXCEPT ![awaitedBy] = @ - 1]
    /\ IF outcome = "reply"
       THEN /\ candidates' = srvCandidates
            /\ candidatesGrid' = renderCandidates(srvCandidates)
       ELSE /\ candidatesGrid' = [mode |-> "error", cards |-> <<>>]
            /\ UNCHANGED candidates
    /\ IF awaitedBy = "init" THEN loadProcessingStatus
                             ELSE UNCHANGED <<statusFetches, processingView>>
    /\ UNCHANGED <<currentTab, systemHealth, healthIndicator, statusCards,
                   healthFetches, lastKeydown, lastTick, lastHealth>>
    /\ UNCHANGED <<uploadVars, srvVars, filterVars, queryVars, atsVars>>

----------------------------------------------------------------------------
(* pollProcessingStatus and the timers *)

\* status.details.find(detail => detail.filename === filename &&
\*                               detail.status === wanted): its index, or 0
Find(details, filename, wanted) ==
    LET hits == {k \in 1..Len(details) :
                    details[k].filename = filename /\ details[k].status = wanted}
    IN  IF hits = {} THEN 0 ELSE Min(hits)

\* poll returns without a new setTimeout: nothing holds its closure any more,
\* and attempts goes with it
Ended(item) == [item EXCEPT !.attempts = 0, !.requests = 0]

\* PollStep with the bound on the attempts off by one
PollStepOffByOne(item, details) ==
    LET processedFile == Find(details, item.filename, "processed")
        failedFile == Find(details, item.filename, "failed")
    IN  IF processedFile # 0
        THEN [Ended(updateFileStatus(item, "success", "")) EXCEPT
                 !.reported = "processed", !.refreshedAfter = FALSE]
        ELSE IF failedFile # 0
        THEN [Ended(updateFileStatus(item, "error",
                               Or(details[failedFile].error, "Processing failed"))) EXCEPT
                 !.reported = "failed"]
        ELSE IF item.attempts + 1 <= maxAttempts
        THEN [item EXCEPT !.attempts = item.attempts + 1, !.timer = PollInterval]
        ELSE Ended(updateFileStatus(item, "error", "Processing timeout"))

\* the body of poll after the response has arrived
PollStep(item, details) ==
    LET processedFile == Find(details, item.filename, "processed")
        failedFile == Find(details, item.filename, "failed")
    IN  IF processedFile # 0
        THEN [Ended(updateFileStatus(item, "success", "")) EXCEPT
                 !.reported = "processed", !.refreshedAfter = FALSE]
        ELSE IF failedFile # 0
        THEN [Ended(updateFileStatus(item, "error",
                               Or(details[failedFile].error, "Processing failed"))) EXCEPT
                 !.reported = "failed"]
        ELSE IF item.attempts + 1 < maxAttempts
        THEN [item EXCEPT !.attempts = item.attempts + 1, !.timer = PollInterval]
        ELSE Ended(updateFileStatus(item, "error", "Processing timeout"))

\* a timer of poll fires: the request for the processing status leaves.
\* Timers due at the same time fire in the order they were set.
PollTimerFire(id) ==
    /\ id \in 1..Len(items)
    /\ items[id].timer = 0
    /\ \A j \in 1..(id - 1) : items[j].timer # 0
    /\ items' = [items EXCEPT ![id].timer = -1, ![id].polling = TRUE,
                              ![id].requests = @ + 1]
    /\ UNCHANGED <<budget, call, uploadedFiles, uploadProgress, refreshTimers, sent,
                   lastToast>>
    /\ UNCHANGED <<srvVars, candVars, filterVars, tabVars, queryVars, atsVars>>

PollResponse(id, outcome) ==
    /\ id \in 1..Len(items)
    /\ items[id].polling
    /\ LET item == [items[id] EXCEPT !.polling = FALSE]
       IN  items' = [items EXCEPT ![id] =
                        IF outcome = "reply"
                        THEN PollStep(item, srvDetails)
                        ELSE Ended(updateFileStatus(item, "error", "Status check failed"))]
    /\ UNCHANGED <<budget, call, uploadedFiles, uploadProgress, refreshTimers, sent,
                   lastToast>>
    /\ UNCHANGED <<srvVars, candVars, filterVars, tabVars, queryVars, atsVars>>

\* the timer set at the end of uploadFiles fires: loadCandidates is called
RefreshTimerFire ==
    /\ refreshTimers # <<>>
    /\ Head(refreshTimers) = 0
    /\ refreshTimers' = Tail(refreshTimers)
    /\ loadCandidates("plain")
    /\ items' = [k \in 1..Len(items) |->
                    IF items[k].reported = "processed"
                    THEN [items[k] EXCEPT !.refreshedAfter = TRUE]
                    ELSE items[k]]
    /\ UNCHANGED <<budget, call, uploadedFiles, uploadProgress, sent, lastToast>>
    /\ UNCHANGED <<srvVars, filterVars, tabVars, queryVars, atsVars>>

PendingTimers ==
    {refreshTimers[k] : k \in 1..Len(refreshTimers)} \cup
    {items[k].timer : k \in {j \in 1..Len(items) : items[j].timer >= 0}}

FetchInFlight ==
    \/ call # NoCall
    \/ candFetches.init + candFetches.plain > 0
    \/ \E k \in 1..Len(items) : items[k].polling

\* Time passes until the next timer is due.  The requests in flight are
\* answered first: a request takes less time than the timers wait.
Advance ==
    /\ PendingTimers # {}
    /\ ~FetchInFlight
    /\ LET d == Min(PendingTimers)
       IN  /\ d > 0
           /\ refreshTimers' = [k \in 1..Len(refreshTimers) |-> refreshTimers[k] - d]
           /\ items' = [k \in 1..Len(items) |->
                           IF items[k].timer >= 0
                           THEN [items[k] EXCEPT !.timer = @ - d]
                           ELSE items[k]]
    /\ UNCHANGED <<budget, call, uploadedFiles, uploadProgress, sent, lastToast>>
    /\ UNCHANGED <<srvVars, candVars, filterVars, tabVars, queryVars, atsVars>>

----------------------------------------------------------------------------
(* Tabs, system health, processing status, keyboard shortcuts *)

\* let systemHealth = null
NoHealth == [status |-> "null", neo4j_connected |-> FALSE,
             rag_system_ready |-> FALSE, api_key_configured |-> FALSE]

\* the value checkSystemHealth sets when the request fails
Unhealthy == [status |-> "unhealthy", neo4j_connected |-> FALSE,
              rag_system_ready |-> FALSE, api_key_configured |-> FALSE]

Healthy == [status |-> "healthy", neo4j_connected |-> TRUE,
            rag_system_ready |-> TRUE, api_key_configured |-> TRUE]

\* What GET /health may answer: all is well; the database is down; the status
\* says unhealthy though every component is up; the API key is missing.
HealthReplies ==
    {Healthy,
     [Healthy EXCEPT !.status = "unhealthy", !.neo4j_connected = FALSE],
     [Healthy EXCEPT !.status = "unhealthy"],
     [Healthy EXCEPT !.status = "degraded", !.api_key_configured = FALSE]}

\* no health check has completed yet
NoCheck == [outcome |-> "none", status |-> ""]

Tabs == {"upload", "candidates", "query", "ats", "status"}

\* updateHealthIndicator as it would be had it read the database flag
updateHealthIndicatorByDatabase(health) ==
    IF health = NoHealth THEN "Checking..."
    ELSE IF health.neo4j_connected THEN "System Healthy"
    ELSE "System Issues"

updateHealthIndicator(health) ==
    IF health = NoHealth THEN "Checking..."
    ELSE IF health.status = "healthy" THEN "System Healthy"
    ELSE "System Issues"

updateStatusCards(health, cards) ==
    IF health = NoHealth THEN cards
    ELSE [db |-> IF health.neo4j_connected THEN "Connected" ELSE "Disconnected",
          rag |-> IF health.rag_system_ready THEN "Ready" ELSE "Not Ready",
          api |-> IF health.api_key_configured THEN "Configured" ELSE "Not Configured"]

\* checkSystemHealth up to its await.  awaitedBy is "init" for the call of
\* initializeApp, "auto" for the call of the interval timer, "plain" for the
\* call of switchTab, which nothing waits for.
checkSystemHealth(awaitedBy) ==
    /\ healthFetches' = [healthFetches EXCEPT ![awaitedBy] = @ + 1]
    /\ UNCHANGED <<systemHealth, healthIndicator, statusCards, lastHealth>>

\* checkSystemHealth from the response on, and what its caller does next:
\* initializeApp calls loadCandidates, the interval timer loadProcessingStatus.
HealthResponse(awaitedBy, outcome, reply) ==
    /\ healthFetches[awaitedBy] > 0
    /\ healthFetches' = [healthFetches EXCEPT ![awaitedBy] = @ - 1]
    /\ IF outcome = "reply"
       THEN /\ systemHealth' = reply
            /\ healthIndicator' = updateHealthIndicator(reply)
            /\ statusCards' = updateStatusCards(reply, statusCards)
            /\ lastHealth' = [outcome |-> "reply", status |-> reply.status]
       ELSE /\ systemHealth' = Unhealthy
            /\ healthIndicator' = updateHealthIndicator(Unhealthy)
            /\ UNCHANGED statusCards
            /\ lastHealth' = [outcome |-> "throw", status |-> ""]
    /\ IF awaitedBy = "auto" THEN loadProcessingStatus
                             ELSE UNCHANGED <<statusFetches, processingView>>
    /\ IF awaitedBy = "init" THEN loadCandidates("init") ELSE UNCHANGED candVars
    /\ UNCHANGED <<currentTab, lastKeydown, lastTick>>
    /\ UNCHANGED <<uploadVars, srvVars, filterVars, queryVars, atsVars>>

Count(details, wanted) ==
    Cardinality({k \in 1..Len(details) : details[k].status = wanted})

\* loadProcessingStatus from the response on
StatusResponse(outcome) ==
    /\ statusFetches > 0
    /\ statusFetches' = statusFetches - 1
    /\ IF outcome = "reply"
       THEN processingView' = [summary |-> "counts",
                               processed |-> Count(srvDetails, "processed"),
                               failed |-> Count(srvDetails, "failed"),
                               details |-> srvDetails]
       ELSE processingView' = [processingView EXCEPT !.summary = "error",
                                                     !.processed = 0, !.failed = 0]
    /\ UNCHANGED <<currentTab, systemHealth, healthIndicator, statusCards,
                   healthFetches, lastKeydown, lastTick, lastHealth>>
    /\ UNCHANGED <<uploadVars, srvVars, candVars, filterVars, queryVars, atsVars>>

\* switchTab, whatever called it
switchTab(tabName) ==
    /\ currentTab' = tabName
    /\ IF tabName = "candidates" THEN loadCandidates("plain") ELSE UNCHANGED candVars
    /\ IF tabName = "status"
       THEN /\ loadProcessingStatus
            /\ checkSystemHealth("plain")
       ELSE UNCHANGED <<systemHealth, healthIndicator, statusCards, healthFetches,
                        statusFetches, processingView, lastHealth>>

\* a click on a tab of the navigation
ClickTab(tabName) ==
    /\ switchTab(tabName)
    /\ UNCHANGED <<lastKeydown, lastTick>>
    /\ UNCHANGED <<uploadVars, srvVars, filterVars, queryVars, atsVars>>

\* ShortcutTab as it would be had the listener tested e.ctrlKey alone
ShortcutTabCtrlOnly(e) ==
    IF e.ctrlKey
    THEN CASE e.key = "1" -> "upload"
           [] e.key = "2" -> "candidates"
           [] e.key = "3" -> "query"
           [] e.key = "4" -> "ats"
           [] e.key = "5" -> "status"
           [] OTHER -> ""
    ELSE ""

\* the keydown listener of the document: the tab the shortcut stands for, or
\* "" when the event is none of the shortcuts
ShortcutTab(e) ==
    IF e.ctrlKey \/ e.metaKey
    THEN CASE e.key = "1" -> "upload"
           [] e.key = "2" -> "candidates"
           [] e.key = "3" -> "query"
           [] e.key = "4" -> "ats"
           [] e.key = "5" -> "status"
           [] OTHER -> ""
    ELSE ""

Keydown(e) ==
    /\ lastKeydown' = [n |-> 1 - lastKeydown.n, key |-> e.key,
                       ctrlKey |-> e.ctrlKey, metaKey |-> e.metaKey]
    /\ IF ShortcutTab(e) # ""
       THEN switchTab(ShortcutTab(e))
       ELSE UNCHANGED <<currentTab, systemHealth, healthIndicator, statusCards,
                        healthFetches, statusFetches, processingView, candVars,
                        lastHealth>>
    /\ UNCHANGED lastTick
    /\ UNCHANGED <<uploadVars, srvVars, filterVars, queryVars, atsVars>>

\* AutoRefreshTick as it would be without the test of the current tab
AutoRefreshTickAnyTab ==
    /\ lastTick' = [n |-> 1 - lastTick.n, tab |-> currentTab]
    /\ checkSystemHealth("auto")
    /\ UNCHANGED <<currentTab, statusFetches, processingView, lastKeydown>>
    /\ UNCHANGED <<uploadVars, srvVars, candVars, filterVars, queryVars, atsVars>>

\* the callback of setInterval(..., 30000) up to its first await
AutoRefreshTick ==
    /\ lastTick' = [n |-> 1 - lastTick.n, tab |-> currentTab]
    /\ IF currentTab = "status"
       THEN checkSystemHealth("auto")
       ELSE UNCHANGED <<systemHealth, healthIndicator, statusCards, healthFetches,
                        lastHealth>>
    /\ UNCHANGED <<currentTab, statusFetches, processingView, lastKeydown>>
    /\ UNCHANGED <<uploadVars, srvVars, candVars, filterVars, queryVars, atsVars>>

----------------------------------------------------------------------------
(* Text: toLowerCase, includes, trim *)

LowerChar(c) ==
    CASE c = "A" -> "a"
      [] c = "B" -> "b"
      [] c = "G" -> "g"
      [] c = "M" -> "m"
      [] OTHER -> c

\* String.prototype.toLowerCase
toLowerCase(text) == [k \in 1..Len(text) |-> LowerChar(text[k])]

\* String.prototype.includes: part occurs in text as a run of characters
includes(text, part) ==
    \E start \in 0..(Len(text) - Len(part)) :
        \A k \in 1..Len(part) : text[start + k] = part[k]

\* String.prototype.trim
RECURSIVE trimStart(_)
trimStart(text) ==
    IF text # <<>> /\ Head(text) = " " THEN trimStart(Tail(text)) ELSE text

RECURSIVE trimEnd(_)
trimEnd(text) ==
    IF text # <<>> /\ text[Len(text)] = " "
    THEN trimEnd(SubSeq(text, 1, Len(text) - 1))
    ELSE text

trim(text) == trimEnd(trimStart(text))

----------------------------------------------------------------------------
(* Candidate search: filterCandidates *)

\* Array.prototype.some over texts
SomeIncludes(texts, searchTerm) ==
    \E k \in 1..Len(texts) : includes(toLowerCase(texts[k]), searchTerm)

\* The predicate filterCandidates hands to filter, with the short circuit of
\* ||: "throw" is the TypeError of candidate.title.toLowerCase() on a
\* candidate without a title.
Matches(candidate, searchTerm) ==
    IF includes(toLowerCase(candidate.name), searchTerm) THEN "true"
    ELSE IF candidate.title = Null THEN "throw"
    ELSE IF includes(toLowerCase(candidate.title), searchTerm) THEN "true"
    ELSE IF SomeIncludes(candidate.skills, searchTerm) THEN "true"
    ELSE IF SomeIncludes(candidate.institutions, searchTerm) THEN "true"
    ELSE "false"

RECURSIVE Filtered(_, _)
Filtered(candidateList, searchTerm) ==
    IF candidateList = <<>> THEN <<>>
    ELSE IF Matches(Head(candidateList), searchTerm) = "true"
         THEN <<Head(candidateList)>> \o Filtered(Tail(candidateList), searchTerm)
         ELSE Filtered(Tail(candidateList), searchTerm)

\* the input listener of #candidateSearch: the user has made value the text of
\* the field.  When the predicate throws, the listener ends there and
\* renderCandidates is not called.
filterCandidates(value) ==
    LET searchTerm == toLowerCase(value)
        threw == \E k \in 1..Len(candidates) : Matches(candidates[k], searchTerm) = "throw"
    IN  /\ candidateSearch' = value
        /\ lastFilter' = [ran |-> TRUE, term |-> value, threw |-> threw]
        /\ IF threw
           THEN UNCHANGED candidatesGrid
           ELSE candidatesGrid' = renderCandidates(Filtered(candidates, searchTerm))
        /\ UNCHANGED <<candidates, candFetches>>
        /\ UNCHANGED <<uploadVars, srvVars, tabVars, queryVars, atsVars>>

----------------------------------------------------------------------------
(* Query tab: submitQuery and the listeners of #queryInput and #querySubmit *)

NoReply == [success |-> FALSE, result |-> "", error |-> "", thrown |-> FALSE,
            none |-> TRUE]
Thrown == [NoReply EXCEPT !.thrown = TRUE, !.none = FALSE]
QueryReply(success, result, error) ==
    [success |-> success, result |-> result, error |-> error, thrown |-> FALSE,
     none |-> FALSE]

\* What POST /query may answer: an answer, the "no relevant information"
\* result, a failure with and without a message.
QueryReplies ==
    {QueryReply(TRUE, "answer", ""),
     QueryReply(TRUE, "no relevant information", ""),
     QueryReply(FALSE, "", "capability failure"),
     QueryReply(FALSE, "", "")}

\* QueryView as it would be had the handler shown whatever carries a result
QueryViewByResult(reply) ==
    IF reply.thrown
    THEN [kind |-> "error", text |-> "Failed to connect to the server", reply |-> reply]
    ELSE IF reply.result # ""
    THEN [kind |-> "results", text |-> reply.result, reply |-> reply]
    ELSE [kind |-> "results", text |-> reply.error, reply |-> reply]

\* what submitQuery writes to #queryResults once the request is settled; the
\* reply field keeps what it was written from
QueryView(reply) ==
    IF reply.thrown
    THEN [kind |-> "error", text |-> "Failed to connect to the server", reply |-> reply]
    ELSE IF reply.success
    THEN [kind |-> "results", text |-> reply.result, reply |-> reply]
    ELSE [kind |-> "error", text |-> Or(reply.error, "Failed to process query"),
          reply |-> reply]

\* submitQuery up to its await
submitQuery ==
    IF trim(queryInput) = <<>>
    THEN /\ lastToast' = Toast("warning", "Please enter a query", "")
         /\ UNCHANGED <<queryResults, querySubmit, queryFetches>>
    ELSE /\ querySubmit' = [disabled |-> TRUE]
         /\ queryResults' = [kind |-> "loading", text |-> "", reply |-> NoReply]
         /\ queryFetches' = queryFetches + 1
         /\ UNCHANGED lastToast

\* submitQuery from the response on
QueryResponse(reply) ==
    /\ queryFetches > 0
    /\ queryFetches' = queryFetches - 1
    /\ queryResults' = QueryView(reply)
    /\ querySubmit' = [disabled |-> FALSE]
    /\ UNCHANGED <<queryInput, lastKeypress>>
    /\ UNCHANGED <<uploadVars, srvVars, candVars, filterVars, tabVars, atsVars>>

\* the user edits #queryInput, or picks an example query (setQuery)
setQuery(query) ==
    /\ queryInput' = query
    /\ UNCHANGED <<queryResults, querySubmit, queryFetches, lastKeypress>>
    /\ UNCHANGED <<uploadVars, srvVars, candVars, filterVars, tabVars, atsVars>>

\* a click on #querySubmit, which a disabled button does not get
ClickQuerySubmit ==
    /\ ~querySubmit.disabled
    /\ submitQuery
    /\ UNCHANGED <<queryInput, lastKeypress>>
    /\ UNCHANGED <<budget, call, items, uploadedFiles, uploadProgress, refreshTimers,
                   sent>>
    /\ UNCHANGED <<srvVars, candVars, filterVars, tabVars, atsVars>>

\* the test of the keypress listener of #queryInput
KeypressSubmits(e) == e.key = "Enter" /\ e.ctrlKey

QueryKeypress(e) ==
    /\ lastKeypress' = [n |-> 1 - lastKeypress.n, key |-> e.key, ctrlKey |-> e.ctrlKey,
                        metaKey |-> e.metaKey, submitted |-> KeypressSubmits(e)]
    /\ IF KeypressSubmits(e)
       THEN submitQuery
       ELSE UNCHANGED <<queryResults, querySubmit, queryFetches, lastToast>>
    /\ UNCHANGED queryInput
    /\ UNCHANGED <<budget, call, items, uploadedFiles, uploadProgress, refreshTimers,
                   sent>>
    /\ UNCHANGED <<srvVars, candVars, filterVars, tabVars, atsVars>>

----------------------------------------------------------------------------
(* ATS tab: analyzeSingleResume *)

\* the score README.md promises: 0-100 %
MaxScore == 100

\* scoreClass with the upper threshold exclusive
ScoreClassExclusive(ats_score) ==
    IF ats_score > 70 THEN "high" ELSE IF ats_score >= 40 THEN "medium" ELSE "low"

\* const scoreClass = ...
ScoreClass(ats_score) ==
    IF ats_score >= 70 THEN "high" ELSE IF ats_score >= 40 THEN "medium" ELSE "low"

AtsReplies ==
    {[success |-> TRUE, ats_score |-> score, error |-> "", thrown |-> FALSE] :
        score \in 0..MaxScore}
    \cup {[success |-> FALSE, ats_score |-> 0, error |-> e, thrown |-> t] :
             e \in {"", "analysis failed"}, t \in BOOLEAN}

\* the user edits #jobDescription and #singleResumeText
EditAts(jobDescription, resumeText) ==
    /\ atsInput' = [jobDescription |-> jobDescription, resumeText |-> resumeText]
    /\ UNCHANGED <<atsResults, submitSingleATS, atsFetches>>
    /\ UNCHANGED <<uploadVars, srvVars, candVars, filterVars, tabVars, queryVars>>

\* a click on #submitSingleATS: analyzeSingleResume up to its await
analyzeSingleResume ==
    /\ ~submitSingleATS.disabled
    /\ IF trim(atsInput.jobDescription) = <<>> \/ trim(atsInput.resumeText) = <<>>
       THEN /\ lastToast' = Toast("warning",
                                  "Please enter both job description and resume text", "")
            /\ UNCHANGED <<atsResults, submitSingleATS, atsFetches>>
       ELSE /\ submitSingleATS' = [disabled |-> TRUE]
            /\ atsResults' = [kind |-> "loading", scoreClass |-> "", score |-> 0,
                              text |-> ""]
            /\ atsFetches' = atsFetches + 1
            /\ UNCHANGED lastToast
    /\ UNCHANGED atsInput
    /\ UNCHANGED <<budget, call, items, uploadedFiles, uploadProgress, refreshTimers,
                   sent>>
    /\ UNCHANGED <<srvVars, candVars, filterVars, tabVars, queryVars>>

\* analyzeSingleResume from the response on
AtsResponse(reply) ==
    /\ atsFetches > 0
    /\ atsFetches' = atsFetches - 1
    /\ atsResults' =
          IF reply.thrown
          THEN [kind |-> "error", scoreClass |-> "", score |-> 0,
                text |-> "Failed to connect to the server"]
          ELSE IF reply.success
          THEN [kind |-> "single", scoreClass |-> ScoreClass(reply.ats_score),
                score |-> reply.ats_score, text |-> ""]
          ELSE [kind |-> "error", scoreClass |-> "", score |-> 0,
                text |-> Or(reply.error, "Failed to analyze resume")]
    /\ submitSingleATS' = [disabled |-> FALSE]
    /\ UNCHANGED atsInput
    /\ UNCHANGED <<uploadVars, srvVars, candVars, filterVars, tabVars, queryVars>>

----------------------------------------------------------------------------
(* Initial values, group by group *)

UploadInit(b) ==
    /\ budget = b
    /\ call = NoCall
    /\ items = <<>>
    /\ uploadedFiles = <<>>
    /\ uploadProgress = Hidden
    /\ refreshTimers = <<>>
    /\ sent = {}
    /\ lastToast = NoToast

SrvInit ==
    /\ srvKnown = {}
    /\ srvQueue = {}
    /\ srvDetails = <<>>
    /\ srvCandidates = <<>>

CandInit ==
    /\ candidates = <<>>
    /\ candFetches = [init |-> 0, plain |-> 0]
    /\ candidatesGrid = renderCandidates(<<>>)

FilterInit ==
    /\ candidateSearch = <<>>
    /\ lastFilter = [ran |-> FALSE, term |-> <<>>, threw |-> FALSE]

\* The page once initializeApp has run to its end against a healthy backend
\* that holds no document.
TabInit ==
    /\ currentTab = "upload"
    /\ systemHealth = Healthy
    /\ healthIndicator = "System Healthy"
    /\ statusCards = [db |-> "Connected", rag |-> "Ready", api |-> "Configured"]
    /\ healthFetches = [init |-> 0, plain |-> 0, auto |-> 0]
    /\ statusFetches = 0
    /\ processingView = [summary |-> "counts", processed |-> 0, failed |-> 0,
                         details |-> <<>>]
    /\ lastKeydown = [n |-> 0, key |-> "", ctrlKey |-> FALSE, metaKey |-> FALSE]
    /\ lastTick = [n |-> 0, tab |-> ""]
    /\ lastHealth = [outcome |-> "reply", status |-> "healthy"]

\* The page when initializeApp has run to its first await: the health check
\* is on its way, nothing is shown yet.
TabBoot ==
    /\ currentTab = "upload"
    /\ systemHealth = NoHealth
    /\ healthIndicator = ""
    /\ statusCards = [db |-> "", rag |-> "", api |-> ""]
    /\ healthFetches = [init |-> 1, plain |-> 0, auto |-> 0]
    /\ statusFetches = 0
    /\ processingView = [summary |-> "", processed |-> 0, failed |-> 0,
                         details |-> <<>>]
    /\ lastKeydown = [n |-> 0, key |-> "", ctrlKey |-> FALSE, metaKey |-> FALSE]
    /\ lastTick = [n |-> 0, tab |-> ""]
    /\ lastHealth = NoCheck

QueryInit ==
    /\ queryInput = <<>>
    /\ queryResults = [kind |-> "empty", text |-> "", reply |-> NoReply]
    /\ querySubmit = [disabled |-> FALSE]
    /\ queryFetches = 0
    /\ lastKeypress = [n |-> 0, key |-> "", ctrlKey |-> FALSE, metaKey |-> FALSE,
                       submitted |-> FALSE]

AtsInit ==
    /\ atsInput = [jobDescription |-> <<>>, resumeText |-> <<>>]
    /\ atsResults = [kind |-> "empty", scoreClass |-> "", score |-> 0, text |-> ""]
    /\ submitSingleATS = [disabled |-> FALSE]
    /\ atsFetches = 0

----------------------------------------------------------------------------
(* The upload area: the user drops or picks files, the backend processes    *)
(* them in the background, the pollers and the refresh timer run.           *)

InitUpload ==
    /\ UploadInit(MaxUploads) /\ SrvInit /\ CandInit /\ FilterInit
    /\ TabInit /\ QueryInit /\ AtsInit

Outcomes == {"reply", "throw"}
Details == {"", "detail"}

\* The user drops or picks files when the page is at rest: no upload is
\* running, no poller and no refresh is pending.
AtRest == PendingTimers = {} /\ ~FetchInFlight

NextUpload ==
    \/ \E dropped \in SeqsUpTo(Files, budget) : AtRest /\ handleDrop(dropped)
    \/ \E selected \in SeqsUpTo(Files, budget) : AtRest /\ handleFileSelect(selected)
    \/ \E outcome \in Outcomes, accept \in BOOLEAN, detail \in Details :
           UploadResponse(outcome, accept, detail)
    \/ \E doc \in srvQueue, outcome \in {"processed", "failed"}, error \in Details :
           ServerProcess(doc, outcome, error)
    \/ \E id \in 1..Len(items) : PollTimerFire(id)
    \/ \E id \in 1..Len(items), outcome \in Outcomes : PollResponse(id, outcome)
    \/ RefreshTimerFire
    \/ \E outcome \in Outcomes : LoadCandidatesResponse("plain", outcome)
    \/ Advance

SpecUpload == InitUpload /\ [][NextUpload]_vars

\* The same with a smaller budget and the scheduling of the browser: a timer
\* that is due fires, a request is settled (answered or failed), time passes.
\* Nothing makes the user act or the backend finish.
InitPoll ==
    /\ UploadInit(MaxPolled) /\ SrvInit /\ CandInit /\ FilterInit
    /\ TabInit /\ QueryInit /\ AtsInit

PollFairness ==
    /\ WF_vars(\E outcome \in Outcomes, accept \in BOOLEAN, detail \in Details :
                  UploadResponse(outcome, accept, detail))
    /\ WF_vars(\E id \in 1..Len(items) : PollTimerFire(id))
    /\ WF_vars(\E id \in 1..Len(items), outcome \in Outcomes : PollResponse(id, outcome))
    /\ WF_vars(RefreshTimerFire)
    /\ WF_vars(\E outcome \in Outcomes : LoadCandidatesResponse("plain", outcome))
    /\ WF_vars(Advance)

SpecPoll == InitPoll /\ [][NextUpload]_vars /\ PollFairness

----------------------------------------------------------------------------
(* Claims on the upload area *)

ItemIds == 1..Len(items)
Terminal(item) == item.status \in {"success", "error"}

\* C1 (as claimed): a second upload of bytes the backend already knows is
\* never marked 'Processed': no file item of a duplicate upload has the status
\* success.
C1_DuplicateNeverProcessed ==
    \A id \in ItemIds : items[id].duplicate => items[id].status # "success"

\* C2 (as claimed): however the files were chosen, no file whose type is not
\* application/pdf is sent to POST /upload-resume.
C2_OnlyPdfSent == \A file \in sent : file.type = PDF

\* C5 (as claimed): every file the poller has reported processed gets a
\* loadCandidates request after that report: once nothing is pending on the
\* page (no upload, no timer, no request), no reported file is left without.
C5_RefreshAfterProcessed ==
    AtRest => \A id \in ItemIds :
                 items[id].reported = "processed" => items[id].refreshedAfter

\* C4 (as claimed): an accepted file that was never reported processed or
\* failed ends as error 'Processing timeout'.
C4_NeverReportedEndsTimeout ==
    \A id \in ItemIds :
        (items[id].accepted /\ Terminal(items[id]) /\ items[id].reported = "none")
            => (items[id].status = "error" /\ items[id].message = "Processing timeout")

\* C4 (amended): for every accepted upload the poller issues at most 30
\* processing-status requests; the file item eventually reaches a terminal
\* status; a file never reported processed or failed ends as error, with
\* 'Processing timeout' on the answer to the 30th request, or with 'Status
\* check failed' when a request fails.
C4_PollingTerminates ==
    /\ [](\A id \in ItemIds :
            /\ items[id].requests <= maxAttempts
            /\ (items[id].accepted /\ Terminal(items[id]) /\ items[id].reported = "none")
                  => /\ items[id].status = "error"
                     /\ items[id].message \in {"Processing timeout", "Status check failed"})
    /\ [][\A id \in ItemIds :
            (id <= Len(items') /\ items'[id].message = "Processing timeout"
                /\ items[id].message # "Processing timeout")
              => items[id].requests = maxAttempts]_vars
    /\ \A id \in 1..MaxPolled :
          (id \in ItemIds /\ items[id].accepted /\ ~Terminal(items[id]))
             ~> (id \in ItemIds /\ Terminal(items[id]))

\* C4 witness: an accepted file that was never reported has ended as
\* 'Processing timeout'.
C4_Witness ==
    \E id \in ItemIds :
        /\ items[id].accepted /\ items[id].reported = "none"
        /\ items[id].status = "error" /\ items[id].message = "Processing timeout"

----------------------------------------------------------------------------
(* The tabs: keyboard shortcuts and clicks (SpecKeys); the status tab and    *)
(* its 30 s refresh (SpecStatus).  Both start where initializeApp waits for  *)
(* its health check.                                                         *)

InitTabs ==
    /\ UploadInit(0) /\ SrvInit /\ CandInit /\ FilterInit
    /\ TabBoot /\ QueryInit /\ AtsInit

InFlight ==
    healthFetches.init + healthFetches.plain + healthFetches.auto
        + statusFetches + candFetches.init + candFetches.plain

Keys == {"1", "2", "3", "4", "5", "6", "Enter"}
KeyEvents == [key : Keys, ctrlKey : BOOLEAN, metaKey : BOOLEAN]
AwaitedBy == {"init", "plain", "auto"}

TabResponses ==
    \/ \E awaitedBy \in AwaitedBy, outcome \in Outcomes, reply \in HealthReplies :
           HealthResponse(awaitedBy, outcome, reply)
    \/ \E outcome \in Outcomes : StatusResponse(outcome)
    \/ \E awaitedBy \in {"init", "plain"}, outcome \in Outcomes :
           LoadCandidatesResponse(awaitedBy, outcome)

NextKeys ==
    \/ \E e \in KeyEvents : InFlight < MaxInFlight /\ Keydown(e)
    \/ \E tabName \in Tabs : InFlight < MaxInFlight /\ ClickTab(tabName)
    \/ TabResponses

SpecKeys == InitTabs /\ [][NextKeys]_vars

NextStatus ==
    \/ \E tabName \in Tabs : InFlight < MaxInFlight /\ ClickTab(tabName)
    \/ InFlight < MaxInFlight /\ AutoRefreshTick
    \/ TabResponses

SpecStatus == InitTabs /\ [][NextStatus]_vars

\* everything of the page but the record of the last tick
pageVars == <<uploadVars, srvVars, candVars, filterVars, queryVars, atsVars,
              currentTab, systemHealth, healthIndicator, statusCards, healthFetches,
              statusFetches, processingView, lastKeydown, lastHealth>>

\* C6: on a tick of the 30 s timer with the status tab current a health check
\* is started, and no processing-status load yet; the processing-status load
\* is started when that health check completes, answered or failed; on a tick
\* with any other tab current no request is issued and nothing changes.
C6_AutoRefresh ==
    /\ [][lastTick' # lastTick =>
            IF currentTab = "status"
            THEN /\ healthFetches' = [healthFetches EXCEPT !.auto = @ + 1]
                 /\ statusFetches' = statusFetches
                 /\ candFetches' = candFetches
            ELSE UNCHANGED pageVars]_vars
    /\ [][healthFetches'.auto < healthFetches.auto =>
            statusFetches' = statusFetches + 1]_vars

\* C6 witness: the last tick came with the status tab current, its health
\* check has completed and the processing-status load it is followed by is
\* on its way.
C6_Witness ==
    /\ lastTick.n = 1 /\ lastTick.tab = "status"
    /\ healthFetches.auto = 0 /\ statusFetches = 1 /\ healthFetches.plain = 0

C8_Shortcuts ==
    [d \in {"1", "2", "3", "4", "5"} |->
        CASE d = "1" -> "upload" [] d = "2" -> "candidates" [] d = "3" -> "query"
          [] d = "4" -> "ats" [] OTHER -> "status"]

\* C8: a keydown of 1..5 with Ctrl or Meta held sets currentTab to upload,
\* candidates, query, ats, status; any other keydown leaves currentTab as it is.
C8_CtrlDigitSwitchesTab ==
    [][lastKeydown' # lastKeydown =>
        currentTab' = IF (lastKeydown'.ctrlKey \/ lastKeydown'.metaKey)
                          /\ lastKeydown'.key \in DOMAIN C8_Shortcuts
                      THEN C8_Shortcuts[lastKeydown'.key]
                      ELSE currentTab]_vars

\* C8 witness: Cmd+5 was pressed on another tab and the status tab is current.
C8_Witness ==
    /\ lastKeydown.key = "5" /\ lastKeydown.metaKey /\ ~lastKeydown.ctrlKey
    /\ currentTab = "status"

\* C11: once a health check has completed, the indicator shows 'System
\* Healthy' exactly when the last check was answered with status 'healthy'
\* and 'System Issues' otherwise; when the last check failed, systemHealth is
\* the unhealthy record with all three flags false and the indicator shows
\* 'System Issues'.
C11_IndicatorFollowsHealth ==
    lastHealth.outcome # "none" =>
        /\ healthIndicator =
              IF lastHealth.outcome = "reply" /\ lastHealth.status = "healthy"
              THEN "System Healthy" ELSE "System Issues"
        /\ lastHealth.outcome = "reply" => systemHealth.status = lastHealth.status
        /\ lastHealth.outcome = "throw" =>
              /\ systemHealth.status = "unhealthy"
              /\ ~systemHealth.neo4j_connected
              /\ ~systemHealth.rag_system_ready
              /\ ~systemHealth.api_key_configured
              /\ healthIndicator = "System Issues"

\* C11 witness: a health check was answered healthy and a later one failed.
C11_Witness ==
    /\ lastHealth.outcome = "throw"
    /\ healthIndicator = "System Issues"
    /\ statusCards.db = "Connected"

\* C12 (as claimed): once a health check has completed, answered or failed,
\* no status card shows 'Connected', 'Ready' or 'Configured' while the flag
\* of the current systemHealth it stands for is false.
C12_CardsReflectHealth ==
    lastHealth.outcome # "none" =>
        /\ statusCards.db = "Connected" => systemHealth.neo4j_connected
        /\ statusCards.rag = "Ready" => systemHealth.rag_system_ready
        /\ statusCards.api = "Configured" => systemHealth.api_key_configured

----------------------------------------------------------------------------
(* The query tab *)

InitQuery ==
    /\ UploadInit(0) /\ SrvInit /\ CandInit /\ FilterInit
    /\ TabInit /\ QueryInit /\ AtsInit

Typed == SeqsUpTo({" ", "q"}, MaxText)
KeypressEvents == [key : {"Enter", "a"}, ctrlKey : BOOLEAN, metaKey : BOOLEAN]

NextQuery ==
    \/ \E query \in Typed : setQuery(query)
    \/ queryFetches < MaxInFlight /\ ClickQuerySubmit
    \/ \E e \in KeypressEvents : queryFetches < MaxInFlight /\ QueryKeypress(e)
    \/ \E reply \in QueryReplies \cup {Thrown} : QueryResponse(reply)

SpecQuery == InitQuery /\ [][NextQuery]_vars

\* C9 (as claimed): a keypress in the query input invokes submitQuery exactly
\* when it is Enter with Ctrl held or with Cmd (Meta) held.
C9_CtrlOrCmdEnterSubmits ==
    lastKeypress.submitted <=>
        (lastKeypress.key = "Enter" /\ (lastKeypress.ctrlKey \/ lastKeypress.metaKey))

\* C10: once a query is settled, 'Query Results' is shown exactly when the
\* response carries success = true, the empty 'no relevant information'
\* result included, and an error is shown exactly when the response carries
\* no success or the request failed; before that neither is shown.
C10_OutcomesDistinguished ==
    LET reply == queryResults.reply
    IN  IF reply.none
        THEN queryResults.kind \in {"empty", "loading"}
        ELSE /\ queryResults.kind = "results" <=> (~reply.thrown /\ reply.success)
             /\ queryResults.kind = "error" <=> (reply.thrown \/ ~reply.success)

\* C10 witness: the successful empty result is shown as a result.
C10_Witness ==
    /\ queryResults.kind = "results"
    /\ queryResults.text = "no relevant information"
    /\ queryResults.reply.success

----------------------------------------------------------------------------
(* The ATS tab *)

NextAts ==
    \/ \E jobDescription \in Typed, resumeText \in Typed :
           EditAts(jobDescription, resumeText)
    \/ analyzeSingleResume
    \/ \E reply \in AtsReplies : AtsResponse(reply)

SpecAts == InitQuery /\ [][NextAts]_vars

\* C3: the band shown with an ATS score is high for a score >= 70, medium for
\* a score in 40..69 and low for a score < 40, one of the three for every
\* score in 0..100.
C3_ScoreBands ==
    atsResults.kind = "single" =>
        /\ atsResults.score \in 0..MaxScore
        /\ atsResults.scoreClass \in {"high", "medium", "low"}
        /\ atsResults.score >= 70 => atsResults.scoreClass = "high"
        /\ atsResults.score \in 40..69 => atsResults.scoreClass = "medium"
        /\ atsResults.score < 40 => atsResults.scoreClass = "low"

\* C3 witness: a score of 70 is shown as high.
C3_Witness ==
    atsResults.kind = "single" /\ atsResults.score = 70 /\ atsResults.scoreClass = "high"

----------------------------------------------------------------------------
(* The candidate search, over the lists GET /candidates may have returned *)

Ab == [name |-> <<"A", "b">>, title |-> Null, skills |-> <<<<"G", "o">>>>,
       institutions |-> <<<<"M">>>>]
Bo == [name |-> <<"B">>, title |-> <<"a">>, skills |-> <<>>, institutions |-> <<>>]
Al == [name |-> <<"a">>, title |-> <<"G">>, skills |-> <<<<"b", "A">>>>,
       institutions |-> <<>>]

CandidateLists == SeqsUpTo({Ab, Bo, Al}, MaxList)
SearchTerms == SeqsUpTo({"a", "A", "b", "g", "m"}, MaxTerm)

InitFilter ==
    /\ UploadInit(0) /\ SrvInit /\ FilterInit /\ TabInit /\ QueryInit /\ AtsInit
    /\ candidates \in CandidateLists
    /\ candFetches = [init |-> 0, plain |-> 0]
    /\ candidatesGrid = renderCandidates(candidates)

NextFilter == \E value \in SearchTerms : filterCandidates(value)

SpecFilter == InitFilter /\ [][NextFilter]_vars

C7_Match(candidate, searchTerm) ==
    \/ includes(toLowerCase(candidate.name), searchTerm)
    \/ candidate.title # Null /\ includes(toLowerCase(candidate.title), searchTerm)
    \/ \E k \in 1..Len(candidate.skills) :
           includes(toLowerCase(candidate.skills[k]), searchTerm)
    \/ \E k \in 1..Len(candidate.institutions) :
           includes(toLowerCase(candidate.institutions[k]), searchTerm)

C7_Expected(candidateList, searchTerm) ==
    LET Keep(candidate) == C7_Match(candidate, searchTerm)
    IN  SelectSeq(candidateList, Keep)

\* C7 (as claimed): after a search the grid shows exactly the candidates for
\* which the lower-cased term occurs in the lower-cased name, title, a skill
\* or an institution, and the search did not fail, a candidate without a
\* title in the list or not.
C7_SearchRendersMatches ==
    lastFilter.ran =>
        /\ ~lastFilter.threw
        /\ candidatesGrid =
              renderCandidates(C7_Expected(candidates, toLowerCase(lastFilter.term)))

====
